---- MODULE Spec2Model ----
(***************************************************************************)
(* Model of the gth traffic tool: TrafficRequester writes one raw snapshot *)
(* per UTC day, Analytics merges unprocessed raw snapshots into per        *)
(* repository series files and writes a diff report.                       *)
(*                                                                         *)
(* Dates are day numbers.  The code handles them as ISO-8601 strings       *)
(* (YYYY-MM-DD), whose lexicographic order (sorted(), line 119, 139, 273   *)
(* of analytics.py) is the order of the day numbers.                       *)
(* A csv file is the sequence of its data lines <<date, value>>; the       *)
(* header line is implied by the file's existence.                         *)
(***************************************************************************)
EXTENDS Integers, Sequences, FiniteSets, TLC

VARIABLES
    today,        \* current UTC date (datetime.utcnow().date())
    tr,           \* the TrafficRequester object and its position in run()
    raw_root,     \* log/raw/ exists
    raw,          \* log/raw/<date>.csv : date -> table (sequence of rows)
    an,           \* the Analytics object (self) and its position in run()
    an_exit,      \* exit status of the last Analytics process
    an_root,      \* log/analytics/ exists
    an_dirs,      \* log/analytics/<date>/ directories
    reports,      \* log/analytics/<date>/<date>.json : date -> report
    repos_root,   \* log/repos/ exists
    repo_dirs,    \* log/repos/<dirname>/ directories
    series,       \* log/repos/<dirname>/<col>.csv : <<dirname, col>> -> lines
    crashes,      \* number of Analytics processes that ended by a failure
    hist,         \* history of the ingestion runs (not program state)
    dly,          \* update_daily_metric applied to one file (DailySpec)
    bad,          \* raw logs with a cell that cannot be read: date -> kind
    nm,           \* full2dir applied to one name (NameSpec)
    acq,          \* get_history and log_data of one process (AcqSpec)
    mn            \* main() and the directories of its stages (MainSpec)

vars == <<today, tr, raw_root, raw, an, an_exit, an_root, an_dirs, reports,
          repos_root, repo_dirs, series, crashes, hist, dly, bad, nm, acq, mn>>

fsvars == <<raw_root, raw, an_root, an_dirs, reports, repos_root, repo_dirs,
            series>>

----------------------------------------------------------------------------
(* Bounds *)

MaxDay == 2          \* today ranges over 1..MaxDay
MaxCrashes == 1      \* Analytics processes terminated or ended by an error
MaxDate == 2         \* DailySpec: the dates of the maps are 1..MaxDate
MaxLen == 3          \* NameSpec: the names have at most MaxLen characters
MaxRepos == 2        \* AcqSpec: at most MaxRepos repositories are tracked
MaxFails == 2        \* AcqSpec: failed attempts are counted up to MaxFails

(* Program constants *)

dtp == 14            \* TrafficRequester.dtp, days of daily data requested

NoDate == 0 - 1      \* "no snapshot"; raw snapshot dates are >= 0

----------------------------------------------------------------------------
(* Generic helpers *)

EmptyFn == [x \in {} |-> 0]

Max(S) == CHOOSE x \in S : \A y \in S : y <= x

Min(S) == CHOOSE x \in S : \A y \in S : x <= y

RECURSIVE sorted(_)
\* Python sorted() of a collection of distinct dates
sorted(S) == IF S = {} THEN <<>> ELSE <<Min(S)>> \o sorted(S \ {Min(S)})

Range(s) == {s[i] : i \in 1..Len(s)}

Put(f, k, v) == IF k \in DOMAIN f THEN [f EXCEPT ![k] = v] ELSE f @@ (k :> v)

\* str(n): the decimal text of an integer, kept apart from the integer
str(n) == [str |-> n]

----------------------------------------------------------------------------
(* Repository names and full2dir *)

r1 == <<"u", "/", "a">>
r2 == <<"u", "/", ".", "a">>
r3 == <<"u", "/", "b">>
Repos == {r1, r2, r3}

RECURSIVE replace(_, _, _)
\* str.replace(old, new) for a one-character old and a new of length <= 1
replace(s, old, new) ==
    IF s = <<>> THEN <<>>
    ELSE (IF Head(s) = old THEN new ELSE <<Head(s)>>) \o replace(Tail(s), old, new)

\* a slip of lines 311-312: the spaces stay
full2dir_spaces(fullname) ==
    LET d1 == replace(fullname, "/", <<"-">>)
        d2 == replace(d1, ".", <<>>)
    IN  d2

full2dir(fullname) ==
    LET d1 == replace(fullname, "/", <<"-">>)
        d2 == replace(d1, ".", <<>>)
        d3 == replace(d2, " ", <<>>)
    IN  d3

----------------------------------------------------------------------------
(* The metrics source: what the GitHub API answers on one request day.     *)
(* A world lists the tracked repositories in API order, their stars and    *)
(* forks, and one traffic level reported for the request day and the two   *)
(* days before it.                                                         *)

W1 == [repos |-> <<r3, r1>>,
       stars |-> (r1 :> 1 @@ r2 :> 1 @@ r3 :> 1),
       forks |-> (r1 :> 0 @@ r2 :> 0 @@ r3 :> 0),
       traffic |-> 0]
W2 == [repos |-> <<r3, r1>>,
       stars |-> (r1 :> 2 @@ r2 :> 1 @@ r3 :> 2),
       forks |-> (r1 :> 1 @@ r2 :> 0 @@ r3 :> 0),
       traffic |-> 1]
W3 == [repos |-> <<r1, r2>>,
       stars |-> (r1 :> 0 @@ r2 :> 3 @@ r3 :> 2),
       forks |-> (r1 :> 1 @@ r2 :> 0 @@ r3 :> 0),
       traffic |-> 2]
Worlds == {W1, W2, W3}

get_clones_traffic(w, day) ==
    [count |-> 3 * w.traffic, uniques |-> 2 * w.traffic,
     clones |-> {[date |-> d, count |-> w.traffic, uniques |-> w.traffic] :
                    d \in (day - 2)..day}]

get_views_traffic(w, day) ==
    [count |-> 3 * (w.traffic + 1), uniques |-> 2 * w.traffic + 1,
     views |-> {[date |-> d, count |-> w.traffic + 1, uniques |-> w.traffic] :
                    d \in (day - 2)..day}]

----------------------------------------------------------------------------
(* TrafficRequester *)

\* the dtp dates before `day`
last_dates(day) == {day - dd : dd \in 1..dtp}

\* a dictionary of zeros over last_dates, overwritten by the entries of
\* `data` whose date is in last_dates
daily_dict(day, data, field) ==
    [d \in last_dates(day) |->
        IF \E e \in data : e.date = d
        THEN (CHOOSE e \in data : e.date = d)[field]
        ELSE 0]

get_history(w, day) ==
    [rr \in 1..Len(w.repos) |->
        LET repo == w.repos[rr]
            ct == get_clones_traffic(w, day)
            vt == get_views_traffic(w, day)
        IN  [repo |-> repo,
             stars |-> w.stars[repo],
             forks |-> w.forks[repo],
             clones_2weeks |-> ct.count,
             clones_uniques_2weeks |-> ct.uniques,
             views_2weeks |-> vt.count,
             views_uniques_2weeks |-> vt.uniques,
             clones_daily |-> daily_dict(day, ct.clones, "count"),
             clones_uniques_daily |-> daily_dict(day, ct.clones, "uniques"),
             views_daily |-> daily_dict(day, vt.views, "count"),
             views_uniques_daily |-> daily_dict(day, vt.views, "uniques")]]

\* the name of the raw log written on `day`
log_data_date(day) == day - 1

TrIdle == [pc |-> "idle", df |-> <<>>]

----------------------------------------------------------------------------
(* Analytics: the operations on the files *)

\* the "repo" column of a table
repo_col(df) == [i \in 1..Len(df) |-> df[i].repo]

\* check_dirs with slips: the analytics directory made before the raw
\* directory is looked at (early_mkdir), and another test than that of
\* line 165 on the dates of the raw logs (later)
check_dirs_slip(rawroot, rawfiles, andirs, early_mkdir, later(_, _)) ==
    LET raw_logs == sorted(DOMAIN rawfiles)
        last_date == Max(andirs)
    IN  IF ~rawroot \/ Len(raw_logs) = 0
        THEN [fatal |-> TRUE, mkdir |-> early_mkdir, analytics_needed |-> <<>>,
              prev_exists |-> FALSE, prev_date |-> NoDate, prev_log_df |-> <<>>]
        ELSE IF andirs = {}
        THEN [fatal |-> FALSE, mkdir |-> TRUE, analytics_needed |-> raw_logs,
              prev_exists |-> FALSE, prev_date |-> NoDate, prev_log_df |-> <<>>]
        ELSE IF last_date \notin DOMAIN rawfiles
        THEN [fatal |-> TRUE, mkdir |-> TRUE, analytics_needed |-> <<>>,
              prev_exists |-> TRUE, prev_date |-> last_date, prev_log_df |-> <<>>]
        ELSE [fatal |-> FALSE, mkdir |-> TRUE,
              analytics_needed |->
                  SelectSeq(raw_logs, LAMBDA raw_date : later(raw_date, last_date)),
              prev_exists |-> TRUE, prev_date |-> last_date,
              prev_log_df |-> rawfiles[last_date]]

After(raw_date, last_date) == raw_date > last_date

NotBefore(raw_date, last_date) == raw_date >= last_date

AnyDate(raw_date, last_date) == TRUE

\* a slip of line 165: raw_date >= last_date
check_dirs_ge(rawroot, rawfiles, andirs) ==
    check_dirs_slip(rawroot, rawfiles, andirs, FALSE, NotBefore)

\* a slip of lines 157-166: every raw log is returned
check_dirs_all(rawroot, rawfiles, andirs) ==
    check_dirs_slip(rawroot, rawfiles, andirs, FALSE, AnyDate)

\* a slip of lines 110-132: makedirs of the analytics directory comes first
check_dirs_mkdir(rawroot, rawfiles, andirs) ==
    check_dirs_slip(rawroot, rawfiles, andirs, TRUE, After)

\* a slip of lines 157-166 that follows the docstring: the raw logs without
\* an analytics directory are returned
check_dirs_unreported(rawroot, rawfiles, andirs) ==
    LET raw_logs == sorted(DOMAIN rawfiles)
        last_date == Max(andirs)
    IN  IF ~rawroot \/ Len(raw_logs) = 0
        THEN [fatal |-> TRUE, mkdir |-> FALSE, analytics_needed |-> <<>>,
              prev_exists |-> FALSE, prev_date |-> NoDate, prev_log_df |-> <<>>]
        ELSE IF andirs = {}
        THEN [fatal |-> FALSE, mkdir |-> TRUE, analytics_needed |-> raw_logs,
              prev_exists |-> FALSE, prev_date |-> NoDate, prev_log_df |-> <<>>]
        ELSE IF last_date \notin DOMAIN rawfiles
        THEN [fatal |-> TRUE, mkdir |-> TRUE, analytics_needed |-> <<>>,
              prev_exists |-> TRUE, prev_date |-> last_date, prev_log_df |-> <<>>]
        ELSE [fatal |-> FALSE, mkdir |-> TRUE,
              analytics_needed |->
                  SelectSeq(raw_logs, LAMBDA raw_date : raw_date \notin andirs),
              prev_exists |-> TRUE, prev_date |-> last_date,
              prev_log_df |-> rawfiles[last_date]]

\* lines 107-168.  fatal: sys.exit(1) or an uncaught read error
check_dirs(rawroot, rawfiles, andirs) ==
    LET raw_logs == sorted(DOMAIN rawfiles)
        last_date == Max(andirs)
    IN  IF ~rawroot \/ Len(raw_logs) = 0
        THEN [fatal |-> TRUE, mkdir |-> FALSE, analytics_needed |-> <<>>,
              prev_exists |-> FALSE, prev_date |-> NoDate, prev_log_df |-> <<>>]
        ELSE IF andirs = {}
        THEN [fatal |-> FALSE, mkdir |-> TRUE, analytics_needed |-> raw_logs,
              prev_exists |-> FALSE, prev_date |-> NoDate, prev_log_df |-> <<>>]
        ELSE IF last_date \notin DOMAIN rawfiles
        THEN [fatal |-> TRUE, mkdir |-> TRUE, analytics_needed |-> <<>>,
              prev_exists |-> TRUE, prev_date |-> last_date, prev_log_df |-> <<>>]
        ELSE [fatal |-> FALSE, mkdir |-> TRUE,
              analytics_needed |->
                  SelectSeq(raw_logs, LAMBDA raw_date : raw_date > last_date),
              prev_exists |-> TRUE, prev_date |-> last_date,
              prev_log_df |-> rawfiles[last_date]]

\* a slip of lines 192-200: the directory of repositories is made anew
create_repo_dirs_only(dirs, log_df) ==
    {full2dir(log_df[i].repo) : i \in 1..Len(log_df)}

\* a slip of lines 192-200: only the first repository gets its directory
create_repo_dirs_first(dirs, log_df) ==
    dirs \cup {full2dir(log_df[1].repo)}

\* lines 192-200
create_repo_dirs(dirs, log_df) ==
    dirs \cup {full2dir(log_df[i].repo) : i \in 1..Len(log_df)}

\* a slip of lines 236-238: the directory is that of the first row
update_nondaily_metric_row1(files, log_df, raw_log_current, ri, col_name) ==
    LET file_path == <<full2dir(log_df[1].repo), col_name>>
        line == <<raw_log_current, log_df[ri][col_name]>>
    IN  IF file_path \notin DOMAIN files
        THEN files @@ (file_path :> <<line>>)
        ELSE [files EXCEPT ![file_path] = Append(@, line)]

\* a slip of lines 240-244: the file is always opened with "w"
update_nondaily_metric_w(files, log_df, raw_log_current, ri, col_name) ==
    LET file_path == <<full2dir(log_df[ri].repo), col_name>>
        line == <<raw_log_current, log_df[ri][col_name]>>
    IN  Put(files, file_path, <<line>>)

\* lines 236-248
update_nondaily_metric(files, log_df, raw_log_current, ri, col_name) ==
    LET file_path == <<full2dir(log_df[ri].repo), col_name>>
        line == <<raw_log_current, log_df[ri][col_name]>>
    IN  IF file_path \notin DOMAIN files
        THEN files @@ (file_path :> <<line>>)
        ELSE [files EXCEPT ![file_path] = Append(@, line)]

\* a slip of lines 285-287: every row of the map is appended
daily_lines_all(exists, lines, data_cur_dict) ==
    LET keys == sorted(DOMAIN data_cur_dict)
        data_cur == [i \in 1..Len(keys) |-> <<keys[i], data_cur_dict[keys[i]]>>]
    IN  IF ~exists THEN data_cur ELSE lines \o data_cur

\* a slip of lines 285-287: a date already in the file takes the new value
daily_lines_last(exists, lines, data_cur_dict) ==
    LET keys == sorted(DOMAIN data_cur_dict)
        data_cur == [i \in 1..Len(keys) |-> <<keys[i], data_cur_dict[keys[i]]>>]
        data_prev == {lines[i][1] : i \in 1..Len(lines)}
        updated == [i \in 1..Len(lines) |->
                       IF lines[i][1] \in DOMAIN data_cur_dict
                       THEN <<lines[i][1], data_cur_dict[lines[i][1]]>>
                       ELSE lines[i]]
    IN  IF ~exists
        THEN data_cur
        ELSE updated \o SelectSeq(data_cur, LAMBDA row : row[1] \notin data_prev)

\* a slip of line 269: the items of the map are sorted latest date first
daily_lines_desc(exists, lines, data_cur_dict) ==
    LET keys == sorted(DOMAIN data_cur_dict)
        n == Len(keys)
        data_cur == [i \in 1..n |->
                        <<keys[n + 1 - i], data_cur_dict[keys[n + 1 - i]]>>]
        data_prev == {lines[i][1] : i \in 1..Len(lines)}
    IN  IF ~exists
        THEN data_cur
        ELSE lines \o SelectSeq(data_cur, LAMBDA row : row[1] \notin data_prev)

\* lines 268-288 on one file: its lines after the update
daily_lines(exists, lines, data_cur_dict) ==
    LET keys == sorted(DOMAIN data_cur_dict)
        data_cur == [i \in 1..Len(keys) |-> <<keys[i], data_cur_dict[keys[i]]>>]
        data_prev == {lines[i][1] : i \in 1..Len(lines)}
    IN  IF ~exists
        THEN data_cur
        ELSE lines \o SelectSeq(data_cur, LAMBDA row : row[1] \notin data_prev)

\* lines 264-288
update_daily_metric(files, log_df, ri, col_name) ==
    LET file_path == <<full2dir(log_df[ri].repo), col_name>>
        exists == file_path \in DOMAIN files
        lines == IF exists THEN files[file_path] ELSE <<>>
    IN  Put(files, file_path, daily_lines(exists, lines, log_df[ri][col_name]))

\* lines 240-245 when line 246 raises KeyError (no column col_name): the
\* file is made with its header if it was absent, no line is written
update_nondaily_metric_KeyError(files, log_df, ri, col_name) ==
    LET file_path == <<full2dir(log_df[ri].repo), col_name>>
    IN  IF file_path \notin DOMAIN files
        THEN files @@ (file_path :> <<>>)
        ELSE files

\* lines 211-218 when ast.literal_eval (line 268) raises on the cell of
\* "clones_daily": the six scalar columns of the row were logged
sort_raw_data_row_ValueError(files, log_df, raw_log_current, ri) ==
    LET n1 == update_nondaily_metric(files, log_df, raw_log_current, ri, "stars")
        n2 == update_nondaily_metric(n1, log_df, raw_log_current, ri, "forks")
        n3 == update_nondaily_metric(n2, log_df, raw_log_current, ri, "clones_2weeks")
        n4 == update_nondaily_metric(n3, log_df, raw_log_current, ri, "clones_uniques_2weeks")
        n5 == update_nondaily_metric(n4, log_df, raw_log_current, ri, "views_2weeks")
        n6 == update_nondaily_metric(n5, log_df, raw_log_current, ri, "views_uniques_2weeks")
    IN  n6

\* lines 208-220 for one row ri
sort_raw_data_row(files, log_df, raw_log_current, ri) ==
    LET n1 == update_nondaily_metric(files, log_df, raw_log_current, ri, "stars")
        n2 == update_nondaily_metric(n1, log_df, raw_log_current, ri, "forks")
        n3 == update_nondaily_metric(n2, log_df, raw_log_current, ri, "clones_2weeks")
        n4 == update_nondaily_metric(n3, log_df, raw_log_current, ri, "clones_uniques_2weeks")
        n5 == update_nondaily_metric(n4, log_df, raw_log_current, ri, "views_2weeks")
        n6 == update_nondaily_metric(n5, log_df, raw_log_current, ri, "views_uniques_2weeks")
        d1 == update_daily_metric(n6, log_df, ri, "clones_daily")
        d2 == update_daily_metric(d1, log_df, ri, "clones_uniques_daily")
        d3 == update_daily_metric(d2, log_df, ri, "views_daily")
        d4 == update_daily_metric(d3, log_df, ri, "views_uniques_daily")
    IN  d4

RECURSIVE sort_raw_data_from(_, _, _, _)
sort_raw_data_from(files, log_df, raw_log_current, ri) ==
    IF ri > Len(log_df) THEN files
    ELSE sort_raw_data_from(sort_raw_data_row(files, log_df, raw_log_current, ri),
                            log_df, raw_log_current, ri + 1)

\* lines 202-220
sort_raw_data(files, log_df, raw_log_current) ==
    sort_raw_data_from(files, log_df, raw_log_current, 1)

\* a slip of lines 323-331: the two lists take each other's place
check_tracking_change_swap(prev_exists, log_df, prev_log_df) ==
    IF prev_exists
    THEN [ended_tracking |->
              SelectSeq(repo_col(log_df),
                        LAMBDA repo : repo \notin Range(repo_col(prev_log_df))),
          began_tracking |->
              SelectSeq(repo_col(prev_log_df),
                        LAMBDA repo : repo \notin Range(repo_col(log_df)))]
    ELSE [ended_tracking |-> <<>>, began_tracking |-> repo_col(log_df)]

\* a slip of lines 332-335: without a previous log both lists stay empty
check_tracking_change_noprev(prev_exists, log_df, prev_log_df) ==
    IF prev_exists
    THEN [ended_tracking |->
              SelectSeq(repo_col(prev_log_df),
                        LAMBDA repo : repo \notin Range(repo_col(log_df))),
          began_tracking |->
              SelectSeq(repo_col(log_df),
                        LAMBDA repo : repo \notin Range(repo_col(prev_log_df)))]
    ELSE [ended_tracking |-> <<>>, began_tracking |-> <<>>]

\* a slip of lines 329-331: every repository of the current log began
check_tracking_change_all(prev_exists, log_df, prev_log_df) ==
    IF prev_exists
    THEN [ended_tracking |->
              SelectSeq(repo_col(prev_log_df),
                        LAMBDA repo : repo \notin Range(repo_col(log_df))),
          began_tracking |-> repo_col(log_df)]
    ELSE [ended_tracking |-> <<>>, began_tracking |-> repo_col(log_df)]

\* lines 316-336
check_tracking_change(prev_exists, log_df, prev_log_df) ==
    IF prev_exists
    THEN [ended_tracking |->
              SelectSeq(repo_col(prev_log_df),
                        LAMBDA repo : repo \notin Range(repo_col(log_df))),
          began_tracking |->
              SelectSeq(repo_col(log_df),
                        LAMBDA repo : repo \notin Range(repo_col(prev_log_df)))]
    ELSE [ended_tracking |-> <<>>, began_tracking |-> repo_col(log_df)]

\* df.loc[df["repo"] == repo][col].values[0]
first_value(df, repo, col) ==
    df[Min({i \in 1..Len(df) : df[i].repo = repo})][col]

\* a slip of lines 357 and 379: previous minus current
check_change_neg(log_df, prev_log_df, col) ==
    LET both == SelectSeq(repo_col(log_df),
                    LAMBDA repo : /\ repo \in Range(repo_col(prev_log_df))
                                  /\ log_df[Min({i \in 1..Len(log_df) :
                                                    log_df[i].repo = repo})][col]
                                        # prev_log_df[Min({i \in 1..Len(prev_log_df) :
                                                    prev_log_df[i].repo = repo})][col])
    IN  [i \in 1..Len(both) |->
            <<both[i],
              str(prev_log_df[Min({j \in 1..Len(prev_log_df) :
                                      prev_log_df[j].repo = both[i]})][col]
                  - log_df[Min({j \in 1..Len(log_df) :
                                      log_df[j].repo = both[i]})][col])>>]

\* a slip of lines 350 and 372: the rows are taken last to first
check_change_rev(log_df, prev_log_df, col) ==
    LET both == SelectSeq(repo_col(log_df),
                    LAMBDA repo : /\ repo \in Range(repo_col(prev_log_df))
                                  /\ log_df[Min({i \in 1..Len(log_df) :
                                                    log_df[i].repo = repo})][col]
                                        # prev_log_df[Min({i \in 1..Len(prev_log_df) :
                                                    prev_log_df[i].repo = repo})][col])
        n == Len(both)
    IN  [i \in 1..n |->
            <<both[n + 1 - i],
              str(log_df[Min({j \in 1..Len(log_df) :
                                 log_df[j].repo = both[n + 1 - i]})][col]
                  - prev_log_df[Min({j \in 1..Len(prev_log_df) :
                                 prev_log_df[j].repo = both[n + 1 - i]})][col])>>]

\* lines 350-357 and 372-379
check_change(log_df, prev_log_df, col) ==
    LET both == SelectSeq(repo_col(log_df),
                    LAMBDA repo : /\ repo \in Range(repo_col(prev_log_df))
                                  /\ first_value(log_df, repo, col)
                                        # first_value(prev_log_df, repo, col))
    IN  [i \in 1..Len(both) |->
            <<both[i], str(first_value(log_df, both[i], col)
                           - first_value(prev_log_df, both[i], col))>>]

check_stars_change(log_df, prev_log_df) == check_change(log_df, prev_log_df, "stars")

check_forks_change(log_df, prev_log_df) == check_change(log_df, prev_log_df, "forks")

\* lines 72-78 and 401-404: the dictionary that log_analytics writes
analytics_dict(prev_exists, log_df, prev_log_df) ==
    LET t == check_tracking_change(prev_exists, log_df, prev_log_df)
    IN  [began_tracking |-> t.began_tracking,
         ended_tracking |-> t.ended_tracking,
         stars_change |-> IF prev_exists
                          THEN check_stars_change(log_df, prev_log_df) ELSE <<>>,
         forks_change |-> IF prev_exists
                          THEN check_forks_change(log_df, prev_log_df) ELSE <<>>]

\* the files as one value
FS == [raw_root |-> raw_root, raw |-> raw, an_root |-> an_root,
       an_dirs |-> an_dirs, reports |-> reports, repos_root |-> repos_root,
       repo_dirs |-> repo_dirs, series |-> series]

RECURSIVE run_loop(_, _, _, _)
\* lines 56-70 from position idx of analytics_needed
run_loop(st, rawfiles, analytics_needed, idx) ==
    IF idx > Len(analytics_needed) THEN st
    ELSE LET raw_log == analytics_needed[idx]
             log_df == rawfiles[raw_log]
         IN  run_loop([repo_dirs |-> create_repo_dirs(st.repo_dirs, log_df),
                       series |-> sort_raw_data(st.series, log_df, raw_log)],
                      rawfiles, analytics_needed, idx + 1)

\* lines 39-91: the files after one Analytics.run() that is not terminated
run(fs) ==
    LET cd == check_dirs(fs.raw_root, fs.raw, fs.an_dirs)
        needed == cd.analytics_needed
        cur == needed[Len(needed)]
        m == run_loop([repo_dirs |-> fs.repo_dirs, series |-> fs.series],
                      fs.raw, needed, 1)
    IN  IF cd.fatal \/ Len(needed) = 0
        THEN [fs EXCEPT !.an_root = @ \/ cd.mkdir]
        ELSE [fs EXCEPT !.an_root = TRUE,
                        !.repos_root = TRUE,
                        !.repo_dirs = m.repo_dirs,
                        !.series = m.series,
                        !.an_dirs = @ \cup {cur},
                        !.reports = Put(@, cur,
                            analytics_dict(cd.prev_exists, fs.raw[cur],
                                           cd.prev_log_df))]

----------------------------------------------------------------------------
(* Initial state *)

\* lines 30-37 and 48-51
AnIdle == [pc |-> "idle", analytics_needed |-> <<>>, idx |-> 0,
           raw_log_current |-> NoDate, log_df |-> <<>>, ri |-> 0,
           prev_exists |-> FALSE, prev_date |-> NoDate, prev_log_df |-> <<>>,
           began_tracking |-> <<>>, ended_tracking |-> <<>>,
           stars_change |-> <<>>, forks_change |-> <<>>]

NoFS == [raw_root |-> FALSE, raw |-> EmptyFn, an_root |-> FALSE,
         an_dirs |-> {}, reports |-> EmptyFn, repos_root |-> FALSE,
         repo_dirs |-> {}, series |-> EmptyFn]

HistInit == [merged |-> {},          \* snapshot dates merged into the series
             needed |-> <<>>,        \* analytics_needed of the latest run
             start_an_dirs |-> {},   \* an_dirs when the latest run began
             report_prev |-> EmptyFn,\* report date -> date of its previous log
             failed |-> FALSE,       \* a run was terminated and none ended since
             retry |-> FALSE,        \* the latest run followed a terminated run
             resume |-> FALSE,       \* reports existed for exactly the first k
                                     \* of N > k raw logs when the run began
             raw0 |-> EmptyFn,       \* the raw logs when the first try began
             ideal |-> NoFS,         \* run() of the files when it began
             data_error |-> NoDate,  \* raw log whose data ended the latest run
             after_error |-> NoDate] \* data_error of the run before this one

DlyInit == [exists |-> FALSE, lines |-> <<>>,            \* the file
            s0 |-> [exists |-> FALSE, lines |-> <<>>],   \* before the last merge
            m1 |-> EmptyFn,                              \* the last map merged
            first |-> EmptyFn]                           \* date -> first value seen

NmInit == [name |-> <<>>, dirname |-> <<>>]

\* traffic_requester.py lines 60-62 and 131-138: no repository found yet,
\* the lists of get_history empty, no local variable bound
AcqInit == [pc |-> "idle",       \* position in TrafficRequester.run
            n |-> 0,             \* len(self.repo_objects)
            rr |-> 0,            \* index of the repository being requested
            k |-> 0,             \* requests answered in the current attempt
            locals |-> <<>>,     \* the local variables that the requests bind
            rows |-> <<>>,       \* what was appended to the lists, per repository
            written |-> FALSE,   \* log_data has written the raw log
            ok |-> {},           \* repositories with a fully answered attempt
            fails |-> 0]         \* failed attempts, counted up to MaxFails

\* main.py line 25
prefix == "settings_standard"

\* os.path.join of a directory, as the sequence of its parts, and a name
path_join(dir, name) == IF name = "" THEN dir ELSE Append(dir, name)

\* file_dir + "/../log/"
log_dir == <<"log">>

\* analytics.py line 35: raw/, analytics/ and repos/ are taken from here
an_log_dir == log_dir

\* traffic_requester.py lines 245-246: raw/ is made here
tr_prefix_dir(pfx) == path_join(log_dir, pfx)

\* email_sender.py line 50 and plotter.py line 34: analytics/ and repos/
\* are looked for here
es_log_dir(pfx) == path_join(log_dir, pfx)

\* the directories under which the stages keep raw/, analytics/, repos/
Roots == {an_log_dir, tr_prefix_dir(prefix), es_log_dir(prefix)}

\* analytics.py line 21: the parameters of __init__ after self
Analytics_init_params == <<"verbose">>

\* main.py line 35: the arguments of Analytics(prefix,verbose)
main_Analytics_args == <<"prefix", "verbose">>

\* analytics.py line 416: the arguments of Analytics(verbose)
alone_Analytics_args == <<"verbose">>

MainInit == [pc |-> "idle",        \* position in main(), or in a stage run alone
             status |-> "none",    \* how the last process ended
             df |-> <<>>,          \* the table of the traffic requester
             written |-> NoDate,   \* raw log written by this main() run
             mail |-> NoDate,      \* date_cur of the email sender
             store |-> [root \in Roots |-> NoFS]]  \* the files under each root

Init ==
    /\ today = 1
    /\ tr = TrIdle
    /\ raw_root = FALSE
    /\ raw = EmptyFn
    /\ an = AnIdle
    /\ an_exit = "none"
    /\ an_root = FALSE
    /\ an_dirs = {}
    /\ reports = EmptyFn
    /\ repos_root = FALSE
    /\ repo_dirs = {}
    /\ series = EmptyFn
    /\ crashes = 0
    /\ hist = HistInit
    /\ dly = DlyInit
    /\ bad = EmptyFn
    /\ nm = NmInit
    /\ acq = AcqInit
    /\ mn = MainInit

----------------------------------------------------------------------------
(* Time and TrafficRequester.run *)

\* the UTC date advances, between two processes or while TrafficRequester
\* is between get_history (line 142) and log_data (line 259)
Tick ==
    /\ an.pc = "idle" /\ tr.pc \in {"idle", "log"}
    /\ today < MaxDay
    /\ today' = today + 1
    /\ UNCHANGED <<tr, an, an_exit, crashes, hist, dly, bad, nm, acq, mn>>
    /\ UNCHANGED fsvars

\* lines 74-79: get_repositories and get_history
TrGetHistory ==
    /\ tr.pc = "idle" /\ an.pc = "idle"
    /\ \E w \in Worlds : tr' = [pc |-> "log", df |-> get_history(w, today)]
    /\ UNCHANGED <<today, an, an_exit, crashes, hist, dly, bad, nm, acq, mn>>
    /\ UNCHANGED fsvars

\* line 84: log_data
TrLogData ==
    /\ tr.pc = "log"
    /\ raw_root' = TRUE
    /\ raw' = Put(raw, log_data_date(today), tr.df)
    /\ bad' = [d \in DOMAIN bad \ {log_data_date(today)} |-> bad[d]]
    /\ tr' = TrIdle
    /\ hist' = [hist EXCEPT !.failed = FALSE, !.raw0 = EmptyFn, !.ideal = NoFS]
    /\ UNCHANGED <<today, an, an_exit, an_root, an_dirs, reports, repos_root,
                   repo_dirs, series, crashes, dly, nm, acq, mn>>

\* lines 249-255 without line 261: log_data makes the directories and the
\* process ends before to_csv has made the file (killed, or an I/O error)
TrLogFail ==
    /\ tr.pc = "log"
    /\ raw_root' = TRUE
    /\ tr' = TrIdle
    /\ UNCHANGED <<today, raw, an, an_exit, an_root, an_dirs, reports,
                   repos_root, repo_dirs, series, crashes, hist, dly, bad, nm, acq, mn>>

\* the kinds of damage: the "stars" column is missing (KeyError, line 246),
\* or the "clones_daily" cell of the first row is no dictionary literal
\* (ValueError or SyntaxError of ast.literal_eval, line 268)
BadKinds == {"no_column", "malformed_daily"}

\* the environment damages a raw log that Analytics has yet to analyze
\* (while a failure is still within the bound)
Corrupt ==
    /\ an.pc = "idle" /\ tr.pc = "idle"
    /\ crashes < MaxCrashes
    /\ \E d \in Range(check_dirs(raw_root, raw, an_dirs).analytics_needed)
                   \ DOMAIN bad, kind \in BadKinds :
          bad' = bad @@ (d :> kind)
    /\ UNCHANGED <<today, tr, an, an_exit, crashes, hist, dly, nm, acq, mn>>
    /\ UNCHANGED fsvars

----------------------------------------------------------------------------
(* Analytics.run, one step per action; the process can be terminated       *)
(* between any two steps (AnCrash), and a later process starts afresh.     *)

\* reports exist for exactly the first k of the N > k raw logs, k >= 1
Resumable ==
    LET raw_logs == sorted(DOMAIN raw)
    IN  /\ an_dirs = DOMAIN reports
        /\ \E k \in 1..(Len(raw_logs) - 1) :
              DOMAIN reports = {raw_logs[i] : i \in 1..k}

\* lines 48-54: a new process, check_dirs
AnStart ==
    /\ an.pc = "idle" /\ tr.pc = "idle"
    /\ LET cd == check_dirs(raw_root, raw, an_dirs)
       IN  /\ an_root' = (an_root \/ cd.mkdir)
           /\ IF cd.fatal
              THEN /\ an' = [AnIdle EXCEPT !.pc = "exit"]
                   /\ an_exit' = "fatal"
                   /\ hist' = hist
              ELSE /\ an' = [AnIdle EXCEPT !.pc = "checked",
                                !.analytics_needed = cd.analytics_needed,
                                !.prev_exists = cd.prev_exists,
                                !.prev_date = cd.prev_date,
                                !.prev_log_df = cd.prev_log_df]
                   /\ an_exit' = "none"
                   /\ hist' = [hist EXCEPT
                                !.needed = cd.analytics_needed,
                                !.start_an_dirs = an_dirs,
                                !.retry = hist.failed,
                                !.resume = Resumable,
                                !.raw0 = IF hist.failed THEN @ ELSE raw,
                                !.ideal = IF hist.failed THEN @ ELSE run(FS),
                                !.after_error = hist.data_error,
                                !.data_error = NoDate]
    /\ UNCHANGED <<today, tr, raw_root, raw, an_dirs, reports, repos_root,
                   repo_dirs, series, crashes, dly, bad, nm, acq, mn>>

\* line 55 and lines 85-91: nothing to analyze, the process ends
AnNothing ==
    /\ an.pc = "checked"
    /\ Len(an.analytics_needed) = 0
    /\ an' = [AnIdle EXCEPT !.pc = "exit"]
    /\ an_exit' = "ok"
    /\ hist' = [hist EXCEPT !.failed = FALSE]
    /\ UNCHANGED <<today, tr, crashes, dly, bad, nm, acq, mn>>
    /\ UNCHANGED fsvars

\* line 55: enter the loop
AnLoop ==
    /\ an.pc = "checked"
    /\ Len(an.analytics_needed) > 0
    /\ an' = [an EXCEPT !.pc = "load", !.idx = 1]
    /\ UNCHANGED <<today, tr, an_exit, crashes, hist, dly, bad, nm, acq, mn>>
    /\ UNCHANGED fsvars

\* lines 61-67: load_log and create_repo_dirs for the next raw log
AnLoad ==
    /\ an.pc = "load"
    /\ LET raw_log == an.analytics_needed[an.idx]
           log_df == raw[raw_log]
       IN  /\ an' = [an EXCEPT !.pc = "sort", !.raw_log_current = raw_log,
                               !.log_df = log_df, !.ri = 1]
           /\ repos_root' = TRUE
           /\ repo_dirs' = create_repo_dirs(repo_dirs, log_df)
    /\ UNCHANGED <<today, tr, raw_root, raw, an_exit, an_root, an_dirs, reports,
                   series, crashes, hist, dly, bad, nm, acq, mn>>

\* the row to merge is the one with the cell that cannot be read (the
\* first row of a damaged raw log)
DataError ==
    /\ an.pc = "sort"
    /\ an.raw_log_current \in DOMAIN bad
    /\ an.ri = 1

\* a slip: the damaged row is skipped and the loop goes on
AnDataSkip ==
    /\ DataError
    /\ an' = IF an.ri < Len(an.log_df)
             THEN [an EXCEPT !.ri = @ + 1]
             ELSE IF an.idx < Len(an.analytics_needed)
             THEN [an EXCEPT !.pc = "load", !.idx = @ + 1]
             ELSE [an EXCEPT !.pc = "diff"]
    /\ hist' = [hist EXCEPT !.data_error = an.raw_log_current]
    /\ UNCHANGED <<today, tr, an_exit, crashes, dly, bad, nm, acq, mn>>
    /\ UNCHANGED fsvars

\* lines 244-246 or 268: the uncaught KeyError or ValueError ends the
\* process on the damaged row
AnDataError ==
    /\ DataError
    /\ crashes < MaxCrashes
    /\ crashes' = crashes + 1
    /\ series' = IF bad[an.raw_log_current] = "no_column"
                 THEN update_nondaily_metric_KeyError(series, an.log_df,
                                                      an.ri, "stars")
                 ELSE sort_raw_data_row_ValueError(series, an.log_df,
                                                   an.raw_log_current, an.ri)
    /\ an' = [AnIdle EXCEPT !.pc = "exit"]
    /\ an_exit' = "fatal"
    /\ hist' = [hist EXCEPT !.data_error = an.raw_log_current]
    /\ UNCHANGED <<today, tr, raw_root, raw, an_root, an_dirs, reports,
                   repos_root, repo_dirs, dly, bad, nm, acq, mn>>

\* lines 208-220: one row of sort_raw_data; after the last row, the next
\* raw log (line 56) or the end of the loop
AnSortRow ==
    /\ an.pc = "sort"
    /\ ~DataError
    /\ series' = sort_raw_data_row(series, an.log_df, an.raw_log_current, an.ri)
    /\ an' = IF an.ri < Len(an.log_df)
             THEN [an EXCEPT !.ri = @ + 1]
             ELSE IF an.idx < Len(an.analytics_needed)
             THEN [an EXCEPT !.pc = "load", !.idx = @ + 1]
             ELSE [an EXCEPT !.pc = "diff"]
    /\ hist' = [hist EXCEPT !.merged = @ \cup {an.raw_log_current}]
    /\ UNCHANGED <<today, tr, raw_root, raw, an_exit, an_root, an_dirs, reports,
                   repos_root, repo_dirs, crashes, dly, bad, nm, acq, mn>>

\* lines 72-78 and 390-398: the changes, then log_analytics makes the
\* directory of the current raw log
AnLogMkdir ==
    /\ an.pc = "diff"
    /\ LET d == analytics_dict(an.prev_exists, an.log_df, an.prev_log_df)
       IN  an' = [an EXCEPT !.pc = "write",
                            !.began_tracking = d.began_tracking,
                            !.ended_tracking = d.ended_tracking,
                            !.stars_change = d.stars_change,
                            !.forks_change = d.forks_change]
    /\ an_dirs' = an_dirs \cup {an.raw_log_current}
    /\ UNCHANGED <<today, tr, raw_root, raw, an_exit, an_root, reports,
                   repos_root, repo_dirs, series, crashes, hist, dly, bad, nm, acq, mn>>

\* lines 400-410: log_analytics writes the json file, the process ends
AnLogWrite ==
    /\ an.pc = "write"
    /\ reports' = Put(reports, an.raw_log_current,
                      [began_tracking |-> an.began_tracking,
                       ended_tracking |-> an.ended_tracking,
                       stars_change |-> an.stars_change,
                       forks_change |-> an.forks_change])
    /\ an' = [AnIdle EXCEPT !.pc = "exit"]
    /\ an_exit' = "ok"
    /\ hist' = [hist EXCEPT !.failed = FALSE,
                            !.report_prev = Put(@, an.raw_log_current, an.prev_date)]
    /\ UNCHANGED <<today, tr, raw_root, raw, an_root, an_dirs, repos_root,
                   repo_dirs, series, crashes, dly, bad, nm, acq, mn>>

\* the process is terminated (killed, or an uncaught I/O error)
AnCrash ==
    /\ an.pc \notin {"idle", "exit"}
    /\ crashes < MaxCrashes
    /\ crashes' = crashes + 1
    /\ an' = [AnIdle EXCEPT !.pc = "exit"]
    /\ an_exit' = "fatal"
    /\ hist' = [hist EXCEPT !.failed = TRUE]
    /\ UNCHANGED <<today, tr, dly, bad, nm, acq, mn>>
    /\ UNCHANGED fsvars

\* the process is gone; what the history keeps of it is the terminated
\* run that a later run retries
AnExit ==
    /\ an.pc = "exit"
    /\ an' = AnIdle
    /\ an_exit' = "none"
    /\ hist' = [hist EXCEPT !.needed = <<>>, !.start_an_dirs = {},
                            !.retry = FALSE, !.resume = FALSE,
                            !.raw0 = IF hist.failed THEN @ ELSE EmptyFn,
                            !.ideal = IF hist.failed THEN @ ELSE NoFS,
                            !.after_error = NoDate]
    /\ UNCHANGED <<today, tr, crashes, dly, bad, nm, acq, mn>>
    /\ UNCHANGED fsvars

Next ==
    \/ Tick
    \/ TrGetHistory
    \/ TrLogData
    \/ TrLogFail
    \/ Corrupt
    \/ AnStart
    \/ AnNothing
    \/ AnLoop
    \/ AnLoad
    \/ AnSortRow
    \/ AnDataError
    \/ AnLogMkdir
    \/ AnLogWrite
    \/ AnCrash
    \/ AnExit

Spec == Init /\ [][Next]_vars

----------------------------------------------------------------------------
(* DailySpec: update_daily_metric applied again and again to one file,     *)
(* each time with any map from dates of 1..MaxDate to counts.              *)

Counts == {0, 1, 2}

DailyMaps == UNION {[D -> Counts] : D \in SUBSET (1..MaxDate)}

\* the map that keeps, for a date of both, the value of the first
UnionFirst(A, B) ==
    [d \in DOMAIN A \cup DOMAIN B |-> IF d \in DOMAIN A THEN A[d] ELSE B[d]]

DailyMerge ==
    /\ \E M \in DailyMaps :
          dly' = [exists |-> TRUE,
                  lines |-> daily_lines(dly.exists, dly.lines, M),
                  s0 |-> [exists |-> dly.exists, lines |-> dly.lines],
                  m1 |-> M,
                  first |-> UnionFirst(dly.first, M)]
    /\ UNCHANGED <<today, tr, an, an_exit, crashes, hist, bad, nm, acq, mn>>
    /\ UNCHANGED fsvars

DailyNext == DailyMerge

DailySpec == Init /\ [][DailyNext]_vars

----------------------------------------------------------------------------
(* AcqSpec: one TrafficRequester.run over 0..MaxRepos repositories, one    *)
(* step per request; every request can raise.  The value that a request    *)
(* binds is the answer of the API for repository `repo`; `cur` tells that  *)
(* it was answered in the attempt that is under way (it is not program     *)
(* state: the program cannot tell a value from an older one).              *)

\* lines 175-191: the local variables bound by the requests, in order
Requests == <<"stargazers_count", "forks_count", "clones_2weeks_data",
              "clones_uniques_2weeks_data", "clone_data", "views_2weeks_data",
              "views_uniques_2weeks_data", "view_data",
              "referrers_top_10_data", "content_top_10_data">>

Unbound == [repo |-> 0, cur |-> FALSE]

\* the values bound before are those of an attempt that is over
Older(locals) == [q \in DOMAIN locals |-> [locals[q] EXCEPT !.cur = FALSE]]

\* lines 74 and 131-170: get_repositories has found n repositories,
\* get_history starts with the first one (data_obtained = False)
AcqStart ==
    /\ acq.pc = "idle"
    /\ \E n \in 0..MaxRepos :
          acq' = [acq EXCEPT !.pc = IF n = 0 THEN "done" ELSE "try",
                             !.n = n, !.rr = IF n = 0 THEN 0 ELSE 1,
                             !.locals = [q \in 1..Len(Requests) |-> Unbound]]
    /\ UNCHANGED <<today, tr, an, an_exit, crashes, hist, dly, bad, nm, mn>>
    /\ UNCHANGED fsvars

\* lines 175-191: the next request of the attempt is answered
AcqRequest ==
    /\ acq.pc = "try"
    /\ acq.k < Len(Requests)
    /\ acq' = [acq EXCEPT !.k = @ + 1,
                          !.locals[acq.k + 1] = [repo |-> acq.rr, cur |-> TRUE]]
    /\ UNCHANGED <<today, tr, an, an_exit, crashes, hist, dly, bad, nm, mn>>
    /\ UNCHANGED fsvars

\* a slip of lines 193-196: the request that raised is passed over and the
\* attempt goes on
AcqRaise_on ==
    /\ acq.pc = "try"
    /\ acq.k < Len(Requests)
    /\ acq' = [acq EXCEPT !.k = @ + 1,
                          !.fails = IF @ < MaxFails THEN @ + 1 ELSE @]
    /\ UNCHANGED <<today, tr, an, an_exit, crashes, hist, dly, bad, nm, mn>>
    /\ UNCHANGED fsvars

\* lines 193-196 and 172: the next request raises; data_obtained is still
\* False, the while loop starts the attempt again from the first request
AcqRaise ==
    /\ acq.pc = "try"
    /\ acq.k < Len(Requests)
    /\ acq' = [acq EXCEPT !.k = 0,
                          !.locals = Older(@),
                          !.fails = IF @ < MaxFails THEN @ + 1 ELSE @]
    /\ UNCHANGED <<today, tr, an, an_exit, crashes, hist, dly, bad, nm, mn>>
    /\ UNCHANGED fsvars

\* lines 192 and 198-222: data_obtained = True, the values of the local
\* variables are appended; then the next repository (line 165) or the end
\* of the loop and lines 225-236
AcqAppend ==
    /\ acq.pc = "try"
    /\ acq.k = Len(Requests)
    /\ acq' = [acq EXCEPT !.rows = Append(@, acq.locals),
                          !.ok = @ \cup {acq.rr},
                          !.pc = IF acq.rr < acq.n THEN "try" ELSE "done",
                          !.rr = IF acq.rr < acq.n THEN @ + 1 ELSE @,
                          !.k = 0,
                          !.locals = Older(@)]
    /\ UNCHANGED <<today, tr, an, an_exit, crashes, hist, dly, bad, nm, mn>>
    /\ UNCHANGED fsvars

\* line 84: log_data writes the raw log
AcqLog ==
    /\ acq.pc = "done"
    /\ acq' = [acq EXCEPT !.pc = "logged", !.written = TRUE]
    /\ UNCHANGED <<today, tr, an, an_exit, crashes, hist, dly, bad, nm, mn>>
    /\ UNCHANGED fsvars

AcqNext ==
    \/ AcqStart
    \/ AcqRequest
    \/ AcqRaise
    \/ AcqAppend
    \/ AcqLog

\* the process goes on running: once every request of an attempt is
\* answered it appends, and once the loop is over it writes the raw log
AcqSpec ==
    /\ Init
    /\ [][AcqNext]_vars
    /\ WF_vars(AcqAppend)
    /\ WF_vars(AcqLog)

----------------------------------------------------------------------------
(* MainSpec: main() of main.py, stage by stage, and the stages run alone   *)
(* (the __main__ blocks of analytics.py and email_sender.py), over the     *)
(* directories that each stage builds from its own arguments.              *)

\* main.py lines 29-32 and traffic_requester.py lines 74-79
MainTrGet ==
    /\ mn.pc = "idle"
    /\ \E w \in Worlds :
          mn' = [mn EXCEPT !.pc = "tr", !.status = "none", !.mail = NoDate,
                           !.df = get_history(w, today)]
    /\ UNCHANGED <<today, tr, an, an_exit, crashes, hist, dly, bad, nm, acq>>
    /\ UNCHANGED fsvars

\* traffic_requester.py lines 244-262: log_data
MainTrLog ==
    /\ mn.pc = "tr"
    /\ LET root == tr_prefix_dir(prefix)
           date == log_data_date(today)
       IN  mn' = [mn EXCEPT !.pc = "an", !.df = <<>>, !.written = date,
                            !.store[root].raw_root = TRUE,
                            !.store[root].raw = Put(@, date, mn.df)]
    /\ UNCHANGED <<today, tr, an, an_exit, crashes, hist, dly, bad, nm, acq>>
    /\ UNCHANGED fsvars

\* Analytics(*args).run(): a TypeError when there are more arguments than
\* parameters, else one run over the files under an_log_dir; sys.exit(1)
\* of check_dirs ends the process
Analytics_run(args, next_pc) ==
    LET fs == mn.store[an_log_dir]
        cd == check_dirs(fs.raw_root, fs.raw, fs.an_dirs)
    IN  IF Len(args) > Len(Analytics_init_params)
        THEN [mn EXCEPT !.pc = "exit", !.status = "TypeError"]
        ELSE IF cd.fatal
        THEN [mn EXCEPT !.pc = "exit", !.status = "fatal",
                        !.store[an_log_dir] = run(fs)]
        ELSE [mn EXCEPT !.pc = next_pc, !.status = "ok",
                        !.store[an_log_dir] = run(fs)]

\* main.py lines 35-38
MainAnalytics ==
    /\ mn.pc = "an"
    /\ mn' = Analytics_run(main_Analytics_args, "es")
    /\ UNCHANGED <<today, tr, an, an_exit, crashes, hist, dly, bad, nm, acq>>
    /\ UNCHANGED fsvars

\* analytics.py lines 412-416: the module run alone
AloneAnalytics ==
    /\ mn.pc = "idle"
    /\ mn' = Analytics_run(alone_Analytics_args, "exit")
    /\ UNCHANGED <<today, tr, an, an_exit, crashes, hist, dly, bad, nm, acq>>
    /\ UNCHANGED fsvars

\* main.py lines 41-44, or email_sender.py lines 357-365 (the module run
\* alone), and email_sender.py lines 64-81 and 158: os.listdir of a missing
\* directory and open of a missing report raise FileNotFoundError
EmailSender_run ==
    /\ mn.pc \in {"idle", "es"}
    /\ LET fs == mn.store[es_log_dir(prefix)]
       IN  mn' = IF ~fs.an_root
                 THEN [mn EXCEPT !.pc = "exit", !.status = "FileNotFoundError"]
                 ELSE IF fs.an_dirs = {}
                 THEN [mn EXCEPT !.pc = "exit", !.status = "fatal"]
                 ELSE IF Max(fs.an_dirs) \notin DOMAIN fs.reports
                 THEN [mn EXCEPT !.pc = "exit", !.status = "FileNotFoundError",
                                 !.mail = Max(fs.an_dirs)]
                 ELSE [mn EXCEPT !.pc = "exit", !.status = "ok",
                                 !.mail = Max(fs.an_dirs)]
    /\ UNCHANGED <<today, tr, an, an_exit, crashes, hist, dly, bad, nm, acq>>
    /\ UNCHANGED fsvars

\* the process is gone
MainExit ==
    /\ mn.pc = "exit"
    /\ mn' = [mn EXCEPT !.pc = "idle", !.written = NoDate]
    /\ UNCHANGED <<today, tr, an, an_exit, crashes, hist, dly, bad, nm, acq>>
    /\ UNCHANGED fsvars

\* the UTC date advances between two processes
MainTick ==
    /\ mn.pc = "idle"
    /\ today < MaxDay
    /\ today' = today + 1
    /\ UNCHANGED <<tr, an, an_exit, crashes, hist, dly, bad, nm, acq, mn>>
    /\ UNCHANGED fsvars

MainNext ==
    \/ MainTick
    \/ MainTrGet
    \/ MainTrLog
    \/ MainAnalytics
    \/ AloneAnalytics
    \/ EmailSender_run
    \/ MainExit

MainSpec == Init /\ [][MainNext]_vars

----------------------------------------------------------------------------
(* NameSpec: full2dir applied to every name of at most MaxLen characters. *)

Chars == {"u", "a", "/", ".", " ", "-"}

NameStep ==
    /\ Len(nm.name) < MaxLen
    /\ \E c \in Chars :
          nm' = [name |-> Append(nm.name, c),
                 dirname |-> full2dir(Append(nm.name, c))]
    /\ UNCHANGED <<today, tr, an, an_exit, crashes, hist, dly, bad, acq, mn>>
    /\ UNCHANGED fsvars

NameNext == NameStep

NameSpec == Init /\ [][NameNext]_vars

----------------------------------------------------------------------------
(* Properties *)

Dates(lines) == {lines[i][1] : i \in 1..Len(lines)}

Content(lines) == {lines[i] : i \in 1..Len(lines)}

NoDup(lines) ==
    \A i, j \in 1..Len(lines) : i # j => lines[i][1] # lines[j][1]

\* a run that was not terminated leaves the files that run() computes
RunAgrees ==
    (an.pc = "exit" /\ an_exit = "ok" /\ ~hist.retry) => FS = hist.ideal

\* C1: merging M1 and then M2 into a daily series S leaves the same
\* (date, value) content, with as many lines, as merging once the union of
\* M1 and M2 that keeps M1's value for a date of both; merging M1 a second
\* time leaves the file as it is.  (dly.lines is S after M1, S is dly.s0.)
C1_IdempotentDailyMerge ==
    dly.exists =>
        \A M2 \in DailyMaps :
            LET twice == daily_lines(dly.exists, dly.lines, M2)
                once == daily_lines(dly.s0.exists, dly.s0.lines,
                                    UnionFirst(dly.m1, M2))
            IN  /\ Content(twice) = Content(once)
                /\ Len(twice) = Len(once)
                /\ (M2 = dly.m1 => twice = dly.lines)

\* C1 witness: a map was merged into an existing series, with some dates
\* already in the series and some new ones
C1_Witness ==
    /\ dly.s0.exists
    /\ DOMAIN dly.m1 \cap Dates(dly.s0.lines) # {}
    /\ DOMAIN dly.m1 \ Dates(dly.s0.lines) # {}

\* C2: no series file has two lines with the same date
C2_NoDuplicateDates ==
    \A path \in DOMAIN series : NoDup(series[path])

\* C3: a run that retries a terminated run, with the same raw logs, ends
\* with the files that the first run would have left had it not been
\* terminated
C3_CrashRetrySafe ==
    (an.pc = "exit" /\ an_exit = "ok" /\ hist.retry /\ raw = hist.raw0)
        => FS = hist.ideal

\* C4: a run that begins with reports for exactly the first k of N raw logs
\* analyzes exactly the other N - k in ascending order and ends with the
\* series and the reports of a run over all N raw logs from an empty store
C4_Resumable ==
    (an.pc = "exit" /\ an_exit = "ok" /\ hist.resume /\ ~hist.retry)
        => LET scratch == run([NoFS EXCEPT !.raw_root = TRUE, !.raw = raw])
           IN  /\ hist.needed = sorted(DOMAIN raw \ hist.start_an_dirs)
               /\ series = scratch.series
               /\ reports = scratch.reports

\* C5: after a run that ended normally, every raw log it merged has a report
C5_ReportPerSnapshot ==
    (an.pc = "exit" /\ an_exit = "ok")
        => \A T \in Range(hist.needed) : T \in DOMAIN reports

\* the snapshot merged into the series immediately before T, in date order
Preceding(T) ==
    LET earlier == {d \in hist.merged : d < T}
    IN  IF earlier = {} THEN NoDate ELSE Max(earlier)

\* C6: the report of T was computed against the raw log of the snapshot
\* merged immediately before T (against none if T was the first)
C6_PreviousIsImmediatelyPrior ==
    \A T \in DOMAIN reports : hist.report_prev[T] = Preceding(T)

\* C7: check_dirs returns exactly the raw logs without an analytics directory
C7_NeededIsUnreported ==
    an.pc = "checked"
        => Range(an.analytics_needed) = {d \in DOMAIN raw : d \notin an_dirs}

\* C8: no raw log is merged into the series after a raw log of a later date
C8_ChronologicalMerge ==
    [][(an.pc = "sort" /\ series' # series)
           => \A d \in hist.merged : d <= an.raw_log_current]_vars

\* check_dirs leaves T out of the logs to analyze
Processed(T) ==
    LET cd == check_dirs(raw_root, raw, an_dirs)
    IN  ~cd.fatal /\ T \notin Range(cd.analytics_needed)

\* C9: while no Analytics process runs, a raw log that check_dirs treats as
\* processed has its report file
C9_ProcessedImpliesReported ==
    an.pc = "idle"
        => \A T \in DOMAIN raw : Processed(T) => T \in DOMAIN reports

\* C10: every date of the daily series is on one line only, and its value
\* is the one of the first merged map that contained the date
C10_FirstWriteWins ==
    dly.exists =>
        /\ Dates(dly.lines) = DOMAIN dly.first
        /\ NoDup(dly.lines)
        /\ \A i \in 1..Len(dly.lines) :
              dly.lines[i][2] = dly.first[dly.lines[i][1]]

\* C10 witness: the last merged map reported, for a date already in the
\* series, a value other than the stored one
C10_Witness ==
    /\ dly.s0.exists
    /\ \E i \in 1..Len(dly.s0.lines) :
          /\ dly.s0.lines[i][1] \in DOMAIN dly.m1
          /\ dly.m1[dly.s0.lines[i][1]] # dly.s0.lines[i][2]

\* the dates of the lines grow from each line to the next
Increasing(lines) ==
    \A i, j \in 1..Len(lines) : i < j => lines[i][1] < lines[j][1]

IsPrefix(s, t) == Len(s) <= Len(t) /\ SubSeq(t, 1, Len(s)) = s

\* the lines that the last merge appended to the daily series
Added == SubSeq(dly.lines, Len(dly.s0.lines) + 1, Len(dly.lines))

C12_AppendOnly ==
    [][/\ \A p \in DOMAIN series :
              p \in DOMAIN series' /\ IsPrefix(series[p], series'[p])
       /\ \A p \in DOMAIN series' \ DOMAIN series :
              /\ an.pc = "sort"
              /\ p[1] = full2dir(an.log_df[an.ri].repo)
              /\ \A q \in DOMAIN series : q[1] # p[1]]_vars

\* C12, amended: every step leaves each existing series file as a prefix
\* of its new content, no series file disappears, and a series file is
\* created only by the merge of a row whose repository has the directory of
\* the file (the first such row, or a later one when an earlier merge ended
\* before it reached the file)
C12_AppendOnlyLazy ==
    [][/\ \A p \in DOMAIN series :
              p \in DOMAIN series' /\ IsPrefix(series[p], series'[p])
       /\ \A p \in DOMAIN series' \ DOMAIN series :
              /\ an.pc = "sort"
              /\ p[1] = full2dir(an.log_df[an.ri].repo)]_vars

\* C12 witness: a scalar and a daily series that existed were appended to
C12_Witness ==
    /\ \E p \in DOMAIN series : p[2] = "stars" /\ Len(series[p]) >= 2
    /\ \E p \in DOMAIN series : p[2] = "views_daily" /\ Len(series[p]) > dtp

\* the columns that update_nondaily_metric logs (lines 211-216)
ScalarCols == {"stars", "forks", "clones_2weeks", "clones_uniques_2weeks",
               "views_2weeks", "views_uniques_2weeks"}

\* the number of lines dated T
PointsAt(lines, T) == Cardinality({i \in 1..Len(lines) : lines[i][1] = T})

\* C13: when no process was ever terminated and a run has merged its raw
\* logs, then for every merged raw log T, every row of T and every scalar
\* or windowed column m, the series of the row's repository for m holds
\* exactly one line dated T, and that line carries the row's value of m
C13_OnePointPerSnapshot ==
    (crashes = 0 /\ an.pc = "diff") =>
        \A k \in 1..Len(an.analytics_needed) :
            LET T == an.analytics_needed[k]
                df == raw[T]
            IN  \A i \in 1..Len(df), m \in ScalarCols :
                    LET p == <<full2dir(df[i].repo), m>>
                    IN  /\ p \in DOMAIN series
                        /\ PointsAt(series[p], T) = 1
                        /\ <<T, df[i][m]>> \in Content(series[p])

\* the repositories of a table
ReposOf(df) == Range(repo_col(df))

\* the value of column col in the row of repo (tables hold one row per repo)
ValueAt(df, repo, col) ==
    df[CHOOSE i \in 1..Len(df) : df[i].repo = repo][col]

\* C14: when a previous log exists, the began-tracking list holds exactly
\* the repositories of the current table that are absent from the previous
\* table, and the ended-tracking list exactly those of the previous table
\* that are absent from the current one
C14_MembershipDiff ==
    (an.pc = "write" /\ an.prev_exists) =>
        /\ Range(an.began_tracking)
               = ReposOf(an.log_df) \ ReposOf(an.prev_log_df)
        /\ Range(an.ended_tracking)
               = ReposOf(an.prev_log_df) \ ReposOf(an.log_df)

\* C14 witness: the changes were computed against a previous log, one
\* repository began and another ended being tracked
C14_Witness ==
    /\ an.pc = "write" /\ an.prev_exists
    /\ an.began_tracking # <<>>
    /\ an.ended_tracking # <<>>

\* C15: a run that began with no analytics directory and ended normally
\* has written, for its current raw log, a report whose began-tracking list
\* is the repo column of that log and whose other three lists are empty
C15_FirstReport ==
    (an.pc = "exit" /\ an_exit = "ok" /\ hist.needed # <<>>
        /\ hist.start_an_dirs = {}) =>
        LET T == hist.needed[Len(hist.needed)]
        IN  /\ T \in DOMAIN reports
            /\ reports[T] = [began_tracking |-> repo_col(raw[T]),
                             ended_tracking |-> <<>>,
                             stars_change |-> <<>>,
                             forks_change |-> <<>>]

\* C15 witness: a run over two raw logs that began with no analytics
\* directory has ended normally
C15_Witness ==
    /\ an.pc = "exit" /\ an_exit = "ok"
    /\ Len(hist.needed) = 2
    /\ hist.start_an_dirs = {}

\* the repositories of both tables whose value of col differs
Changed(col) ==
    {repo \in ReposOf(an.log_df) \cap ReposOf(an.prev_log_df) :
        ValueAt(an.log_df, repo, col) # ValueAt(an.prev_log_df, repo, col)}

\* a JSON number, as json.dump writes a Python int: kept apart from text
num(n) == [num |-> n]

\* the list has one entry (repo, conv(current - previous)) for each
\* repository of Changed(col), and no other entry
DeltaList(list, col, conv(_)) ==
    /\ {list[i][1] : i \in 1..Len(list)} = Changed(col)
    /\ Len(list) = Cardinality(Changed(col))
    /\ \A i \in 1..Len(list) :
          list[i][2] = conv(ValueAt(an.log_df, list[i][1], col)
                            - ValueAt(an.prev_log_df, list[i][1], col))

C17_ReportImmutable ==
    [][/\ \A T \in DOMAIN reports :
              T \in DOMAIN reports' /\ reports'[T] = reports[T]
       /\ (an.pc = "write" => an.raw_log_current \notin DOMAIN reports)]_vars

\* C17 witness: a run has written its report while the report of an
\* earlier run existed
C17_Witness ==
    /\ an.pc = "exit" /\ an_exit = "ok"
    /\ hist.needed # <<>>
    /\ \E T \in DOMAIN reports : T < hist.needed[1]

\* C18: when a row of a raw log T' is merged into the series, every raw
\* log T that the same run took before T' has its report
C18_PipelinePerSnapshot ==
    [][(an.pc = "sort" /\ series' # series)
           => \A k \in 1..(an.idx - 1) :
                  an.analytics_needed[k] \in DOMAIN reports]_vars

\* C19: while the raw directory is missing or holds no raw log, no
\* analytics directory, repository directory, series file or report exists,
\* and an Analytics process has either not begun or has ended with exit
\* status 1 straight after check_dirs
C19_NoSnapshotsFatal ==
    (~raw_root \/ DOMAIN raw = {}) =>
        /\ an.pc \in {"idle", "exit"}
        /\ (an.pc = "exit" => an_exit = "fatal")
        /\ ~an_root /\ an_dirs = {} /\ DOMAIN reports = {}
        /\ ~repos_root /\ repo_dirs = {} /\ DOMAIN series = {}

\* C19 witness: Analytics was run with a raw directory that holds no raw
\* log, and has exited
C19_Witness ==
    /\ raw_root /\ DOMAIN raw = {}
    /\ an.pc = "exit" /\ an_exit = "fatal"

\* raw logs exist and each of them has its report
AllReported ==
    /\ DOMAIN raw # {}
    /\ \A d \in DOMAIN raw : d \in DOMAIN reports

\* C20: a run that begins when raw logs exist and each has its report gets
\* an empty list from check_dirs, changes no file or directory, and ends
\* normally unless it is terminated
C20_NothingNew ==
    [][/\ (an.pc = "idle" /\ an'.pc # "idle" /\ AllReported)
              => /\ an'.pc = "checked"
                 /\ an'.analytics_needed = <<>>
                 /\ UNCHANGED fsvars
       /\ (an.pc = "checked" /\ AllReported)
              => /\ UNCHANGED fsvars
                 /\ (crashes' = crashes /\ an' # an)
                        => an'.pc = "exit" /\ an_exit' = "ok"]_vars

\* C20 witness: such a run has ended normally
C20_Witness ==
    /\ an.pc = "exit" /\ an_exit = "ok"
    /\ hist.needed = <<>>
    /\ AllReported
    /\ DOMAIN series # {}

\* C21: a run that met a damaged row in raw log T has ended with a failure
\* and has left no report for T or for a later raw log it was to analyze;
\* and check_dirs of the run after it returns T
C21_DataErrorFatal ==
    /\ (an.pc = "exit" /\ hist.data_error # NoDate) =>
           /\ an_exit = "fatal"
           /\ \A d \in Range(hist.needed) :
                  d >= hist.data_error => d \notin DOMAIN reports
    /\ hist.after_error # NoDate => hist.after_error \in Range(hist.needed)

\* C21 witness: the run after one that a damaged raw log ended has called
\* check_dirs
C21_Witness ==
    /\ an.pc = "checked"
    /\ hist.after_error # NoDate

DirsOf(df) == {full2dir(repo) : repo \in ReposOf(df)}

\* C23: create_repo_dirs adds the missing directories of the repositories
\* of the table and no other, keeps every directory that existed, would
\* change nothing if it were run again on the same table, and leaves the
\* series files, the analytics directories and the reports as they are
C23_EnsureIdempotent ==
    [][(an.pc = "load" /\ an'.pc = "sort") =>
           /\ repo_dirs \subseteq repo_dirs'
           /\ repo_dirs' \ repo_dirs = DirsOf(an'.log_df) \ repo_dirs
           /\ create_repo_dirs(repo_dirs', an'.log_df) = repo_dirs'
           /\ series' = series
           /\ reports' = reports
           /\ an_dirs' = an_dirs]_vars

\* C23 witness: create_repo_dirs has run on a table while a directory of
\* this table held series files already and a directory of a repository
\* that is not in the table existed
C23_Witness ==
    /\ an.pc = "sort" /\ an.ri = 1
    /\ repo_dirs \ DirsOf(an.log_df) # {}
    /\ \E p \in DOMAIN series : p[1] \in DirsOf(an.log_df)

\* the first components of the entries of a delta list
EntitiesOf(list) == [i \in 1..Len(list) |-> list[i][1]]

\* the list holds its repositories in the order of the rows of the table
InRowOrder(list, df) ==
    list = SelectSeq(repo_col(df), LAMBDA repo : repo \in Range(list))

\* C24: the began-tracking list and the repositories of the two delta lists
\* are in the order of the rows of the current table
C24_RowOrder ==
    an.pc = "write" =>
        /\ InRowOrder(an.began_tracking, an.log_df)
        /\ InRowOrder(EntitiesOf(an.stars_change), an.log_df)
        /\ InRowOrder(EntitiesOf(an.forks_change), an.log_df)

\* C24 witness: a delta list holds two repositories, u/b before u/a as in
\* the table, which is not their sorted order
C24_Witness ==
    /\ an.pc = "write"
    /\ Len(an.stars_change) = 2
    /\ an.stars_change[1][1] = r3
    /\ an.stars_change[2][1] = r1

\* C25: the directory name of every name holds no "/", "." or " ", is the
\* value of full2dir on the name, and full2dir maps it to itself
C25_DirnameSafe ==
    /\ nm.dirname = full2dir(nm.name)
    /\ Range(nm.dirname) \cap {"/", ".", " "} = {}
    /\ full2dir(nm.dirname) = nm.dirname

\* C25 witness: the name holds a "/", a "." and a " "
C25_Witness ==
    {"/", ".", " "} \subseteq Range(nm.name)

\* C26: a run that had raw logs to analyze and ended normally has written
\* the report of the newest of them and of no other, computed against the
\* raw log of the newest report that existed before (against none if no
\* report existed)
C26_OneReportPerRun ==
    (an.pc = "exit" /\ an_exit = "ok" /\ hist.needed # <<>>) =>
        LET T == hist.needed[Len(hist.needed)]
            prior == DOMAIN reports \ {T}
        IN  /\ DOMAIN reports \cap Range(hist.needed) = {T}
            /\ hist.report_prev[T] = IF prior = {} THEN NoDate ELSE Max(prior)

\* a raw log without a report, dated no later than the newest report
Late(T) ==
    /\ T \in DOMAIN raw
    /\ T \notin DOMAIN reports
    /\ DOMAIN reports # {}
    /\ T <= Max(DOMAIN reports)

AgreesWithSeries(T, entry, col) ==
    LET p == <<full2dir(entry[1]), col>>
        P == hist.report_prev[T]
    IN  /\ p \in DOMAIN series
        /\ \E i, j \in 1..Len(series[p]) :
               /\ series[p][i][1] = T
               /\ series[p][j][1] = P
               /\ entry[2] = str(series[p][i][2] - series[p][j][2])

C29_Isolation ==
    [][(an.pc = "sort" /\ series' # series) =>
           LET A == full2dir(an.log_df[an.ri].repo)
           IN  \A p \in DOMAIN series' :
                   p[1] # A => p \in DOMAIN series /\ series'[p] = series[p]]_vars

\* C29 witness: the second row of a table was merged, and the two rows
\* have series files under different directories
C29_Witness ==
    /\ an.pc \in {"load", "diff"}
    /\ Len(an.log_df) = 2
    /\ full2dir(an.log_df[1].repo) # full2dir(an.log_df[2].repo)
    /\ \A i \in 1..2 :
           <<full2dir(an.log_df[i].repo), "views_uniques_daily">> \in DOMAIN series

\* the four lists are consistent with each other
Consistent(began, ended, stars, forks) ==
    /\ Range(began) \cap Range(ended) = {}
    /\ \A list \in {stars, forks} :
          /\ Range(EntitiesOf(list)) \cap (Range(began) \cup Range(ended)) = {}
          /\ \A i, j \in 1..Len(list) : i # j => list[i][1] # list[j][1]

\* C30: in every report, and in the lists that a run is about to write,
\* began-tracking and ended-tracking are disjoint, no repository of a
\* delta list is in either, and none is twice in a delta list; the lists
\* about to be written have began-tracking within the repositories of the
\* current table and ended-tracking within those of the previous table
C30_FieldsConsistent ==
    /\ \A T \in DOMAIN reports :
          Consistent(reports[T].began_tracking, reports[T].ended_tracking,
                     reports[T].stars_change, reports[T].forks_change)
    /\ an.pc = "write" =>
          /\ Consistent(an.began_tracking, an.ended_tracking,
                        an.stars_change, an.forks_change)
          /\ Range(an.began_tracking) \subseteq ReposOf(an.log_df)
          /\ Range(an.ended_tracking) \subseteq ReposOf(an.prev_log_df)

\* C30 witness: a report with a repository that began, one that ended and
\* one whose stars changed has been written
C30_Witness ==
    \E T \in DOMAIN reports :
        /\ reports[T].began_tracking # <<>>
        /\ reports[T].ended_tracking # <<>>
        /\ reports[T].stars_change # <<>>

\* C31: a step that creates or appends a series file writes into a
\* directory of log/repos/ that existed before the step, and whenever
\* sort_raw_data is about to merge a row of a raw log, the directory of
\* every repository of that log exists
C31_StorageBeforeWrite ==
    [][/\ \A f \in DOMAIN series' :
              (f \notin DOMAIN series \/ series'[f] # series[f]) =>
                  repos_root /\ f[1] \in repo_dirs
       /\ an'.pc = "sort" =>
              repos_root' /\ DirsOf(an'.log_df) \subseteq repo_dirs']_vars

\* C31 witness: the first row of a raw log has been merged and the second
\* row, of a repository with another directory that holds no series file
\* yet, is next
C31_Witness ==
    /\ an.pc = "sort" /\ an.ri = 2
    /\ <<full2dir(an.log_df[1].repo), "stars">> \in DOMAIN series
    /\ full2dir(an.log_df[2].repo) # full2dir(an.log_df[1].repo)
    /\ full2dir(an.log_df[2].repo) \in repo_dirs
    /\ \A f \in DOMAIN series : f[1] # full2dir(an.log_df[2].repo)

\* the columns that hold a dictionary of daily counts
DailyCols == {"clones_daily", "clones_uniques_daily", "views_daily",
              "views_uniques_daily"}

\* C32: in every raw log, every daily dictionary has exactly the dtp
\* consecutive dates that end at the date of the file's name
C32_NameMatchesWindow ==
    \A T \in DOMAIN raw : \A i \in 1..Len(raw[T]) : \A col \in DailyCols :
        DOMAIN raw[T][i][col] = (T - dtp + 1)..T

\* every value of the row appended for repository r was answered for r in
\* one attempt, the one that was under way when the row was appended
WholeRow(row, r) ==
    \A q \in 1..Len(Requests) : row[q] = [repo |-> r, cur |-> TRUE]

\* every request of the attempt for the last repository has been answered
LastAttemptAnswered ==
    /\ acq.pc = "try"
    /\ acq.rr = acq.n
    /\ acq.k = Len(Requests)

\* C33: the rows appended are those of the repositories 1..rr that had an
\* attempt with every request answered, each row made of the values of
\* that one attempt; a failed attempt leaves the rows as they are and is
\* followed by another attempt for the same repository, however many
\* attempts have failed; the loop is over, or the raw log written, only
\* when every repository had such an attempt; and once the last
\* repository had one, the raw log is written
C33_AllOrNothingRetry ==
    /\ [](/\ Len(acq.rows) = Cardinality(acq.ok)
          /\ \A r \in 1..Len(acq.rows) : r \in acq.ok /\ WholeRow(acq.rows[r], r)
          /\ acq.pc \in {"done", "logged"} =>
                 acq.ok = 1..acq.n /\ Len(acq.rows) = acq.n
          /\ acq.written => acq.pc = "logged"
          /\ (acq.pc = "try" /\ acq.k < Len(Requests)) => ENABLED AcqRequest)
    /\ [][(acq.pc = "try" /\ acq'.pc = "try" /\ acq'.k = 0 /\ acq'.rr = acq.rr) =>
              /\ acq'.rows = acq.rows
              /\ acq'.ok = acq.ok
              /\ ENABLED AcqRequest]_vars
    /\ (LastAttemptAnswered ~> acq.written)
    /\ ((acq.pc = "done") ~> acq.written)

\* C33 witness: the raw log of two repositories has been written after
\* MaxFails attempts or more had failed
C33_Witness ==
    /\ acq.written
    /\ Len(acq.rows) = 2
    /\ acq.fails = MaxFails

\* C34: the raw log that the traffic requester of a main() run has written
\* is among the raw logs that the Analytics loader reads, every report
\* that Analytics has written is among those that the email sender and
\* the plotter read, and no main() run ends at the construction of a stage
C34_SharedStore ==
    /\ mn.pc = "an" => mn.written \in DOMAIN mn.store[an_log_dir].raw
    /\ DOMAIN mn.store[an_log_dir].reports
           \subseteq DOMAIN mn.store[es_log_dir(prefix)].reports
    /\ mn.status # "TypeError"

====
